---- MODULE Spec2Model ----
(***************************************************************************)
(* State-machine model of napalm_f5.f5.F5Driver (src/napalm_f5/f5.py).     *)
(*                                                                         *)
(* The driver object holds three fields (device, filename, config_replace) *)
(* and talks to one BIG-IP through the bigrest client.  The remote side is *)
(* modelled by the files it holds, its running and its saved               *)
(* configuration.  Every driver method is one action; the action records   *)
(* in `last` what the call was given, which remote requests it issued,     *)
(* what it returned or raised, and the driver/device state it started from.*)
(***************************************************************************)
EXTENDS Integers, Sequences, FiniteSets, TLC

VARIABLES
    device,          \* self.device: "None" or "BIGIP" (the session handle)
    filename,        \* self.filename: <<>> for None, else <<basename>>
    config_replace,  \* self.config_replace
    remote,          \* files on the BIG-IP, each a path (sequence of components)
    running,         \* the BIG-IP's running configuration
    saved,           \* the BIG-IP's saved configuration
    last,            \* record of the most recent driver call
    cycle            \* history: where the stage/commit/discard cycle stands

vars == <<device, filename, config_replace, remote, running, saved, last, cycle>>

(***************************************************************************)
(* Paths.  A path is the sequence of its components; os.path.basename      *)
(* keeps the last one.                                                     *)
(***************************************************************************)
LocalPaths == {<<"a.scf">>, <<"cfg", "b.scf">>}

Basename(fp) == <<fp[Len(fp)]>>

DownloadsDir == <<"var", "config", "rest", "downloads">>

TmpDir == <<"tmp">>

\* f"/var/config/rest/downloads/{x}": the directory followed by x as written
InDownloads(x) == DownloadsDir \o x

\* f"/tmp/{x}"
InTmp(x) == TmpDir \o x

(***************************************************************************)
(* Remote requests.  One record shape for every bigrest call:              *)
(*   api     upload | command | load | save                                *)
(*   path    the REST path                                                 *)
(*   command "load" (sys config), "run" (util bash) or ""                  *)
(*   prog    the shell program of a bash run, or ""                        *)
(*   src,dst its file operands; for a sys-config load, src is the file     *)
(*   merge   the merge option of a sys-config load                         *)
(***************************************************************************)
Req(api, path, command, prog, src, dst, merge) ==
    [api |-> api, path |-> path, command |-> command, prog |-> prog,
     src |-> src, dst |-> dst, merge |-> merge]

UploadReq(fp) ==
    Req("upload", "/mgmt/shared/file-transfer/uploads", "", "", fp, <<>>, FALSE)

\* self.cli([...]) / self.device.command("/mgmt/tm/util/bash", run -c "...")
BashReq(prog, src, dst) ==
    Req("command", "/mgmt/tm/util/bash", "run", prog, src, dst, FALSE)

LoadFileReq(file, merge) ==
    Req("command", "/mgmt/tm/sys/config", "load", "", file, <<>>, merge)

GetReq(path) == Req("load", path, "", "", <<>>, <<>>, FALSE)

PutReq(path) == Req("save", path, "", "", <<>>, <<>>, FALSE)

(***************************************************************************)
(* The BIG-IP's side of the requests the driver issues.                    *)
(***************************************************************************)
\* the file-transfer endpoint stores the upload under its basename in the
\* downloads directory
DevUpload(fs, fp) == fs \cup {InDownloads(Basename(fp))}

\* bash "mv src /tmp/": moves the file when it exists; a failing mv is only
\* text in the command result
DevMv(fs, src, dstdir) ==
    IF src \in fs THEN (fs \ {src}) \cup {dstdir \o <<src[Len(src)]>>} ELSE fs

\* bash "rm path"
DevRm(fs, p) == fs \ {p}

FactoryConfig == [base |-> <<>>, merged |-> {}]

\* tmsh load sys config file f [merge]
DevLoad(cfg, file, merge) ==
    IF merge THEN [cfg EXCEPT !.merged = @ \cup {<<file[Len(file)]>>}]
             ELSE [base |-> <<file[Len(file)]>>, merged |-> {}]

(***************************************************************************)
(* Records of a call.                                                      *)
(***************************************************************************)
Pre == [device |-> device, filename |-> filename,
        config_replace |-> config_replace, running |-> running,
        saved |-> saved, remote |-> remote, cycle |-> cycle]

NoArgs == [path |-> <<>>, config |-> FALSE, retrieve |-> "", full |-> FALSE,
           sanitized |-> FALSE, format |-> "", high |-> 0, low |-> 0]

\* raised: the exception kind the call ended with ("None": it returned)
\* wraps:  the error the raised exception was built from ("None": not a wrapper)
\* cause:  the error first thrown underneath
\* fault:  the step that threw it
Call(op, args, raised, wraps, cause, fault, calls, ret) ==
    [op |-> op, args |-> args, raised |-> raised, wraps |-> wraps,
     cause |-> cause, fault |-> fault, calls |-> calls, ret |-> ret,
     msg |-> <<>>, answer |-> <<>>, pre |-> Pre]

\* the objects the device answered a getter's query with
WithAnswer(c, objects) == [c EXCEPT !.answer = objects]

\* the words of the exception's message, where the code gives one
WithMsg(c, words) == [c EXCEPT !.msg = words]

Returned(op, args, calls, ret) ==
    Call(op, args, "None", "None", "None", "none", calls, ret)

StageOps == {"load_replace_candidate", "load_merge_candidate"}

(***************************************************************************)
(* cycle is a history variable; no action's outcome depends on it.  It is  *)
(* "Clean" at construction.  Every stage call sets it: "Staged" when the   *)
(* call was given a file and returned, "Failed" when it raised, "ModeOnly" *)
(* when it was given neither file nor config and so recorded only the      *)
(* mode.  From "Staged", a commit_config that returns gives "Committed"    *)
(* and a discard_config that returns gives "Discarded".                    *)
(***************************************************************************)
Init ==
    /\ device = "None"
    /\ filename = <<>>
    /\ config_replace = FALSE
    /\ remote = {}
    /\ running = FactoryConfig
    /\ saved = FactoryConfig
    /\ cycle = "Clean"
    /\ last = Returned("__init__", NoArgs, <<>>, "None")

(***************************************************************************)
(* Session lifecycle.                                                      *)
(***************************************************************************)
OpenRaised(err) ==
    IF err = "RESTAPIError" THEN "ConnectionException" ELSE err

Open ==
    \E err \in {"None", "RESTAPIError"} :
        /\ device' = IF err = "None" THEN "BIGIP" ELSE device
        /\ last' = Call("open", NoArgs, OpenRaised(err), err, err,
                        IF err = "None" THEN "none" ELSE "BIGIP", <<>>, "None")
        /\ UNCHANGED <<filename, config_replace, remote, running, saved, cycle>>

CloseDevice == "None"

Close ==
    /\ device' = CloseDevice
    /\ last' = Returned("close", NoArgs, <<>>, "None")
    /\ UNCHANGED <<filename, config_replace, remote, running, saved, cycle>>

\* is_alive that does not look at the handle
IsAliveResultAlways(dev) == TRUE

IsAliveResult(dev) == IF dev # "None" THEN TRUE ELSE FALSE

IsAlive ==
    /\ last' = Returned("is_alive", NoArgs, <<>>,
                        [is_alive |-> IsAliveResult(device)])
    /\ UNCHANGED <<device, filename, config_replace, remote, running, saved,
                   cycle>>

(***************************************************************************)
(* What the remote side does to one driver call: nothing goes wrong, or    *)
(* one of its remote steps throws.  A step is named by what it does.       *)
(***************************************************************************)
Ok == [step |-> "none", err |-> "None"]

Fails(step, err) == [step |-> step, err |-> err]

StageFaults ==
    {Ok, Fails("upload", "RESTAPIError"), Fails("upload", "EnvironmentError"),
     Fails("mv", "RESTAPIError"), Fails("load", "RESTAPIError")}

(***************************************************************************)
(* _upload_scf(fp): upload the file, then move it to /tmp with a bash mv   *)
(* whose source is the downloads directory followed by fp as given.        *)
(* The upload throws a RESTAPIError of the client or an EnvironmentError   *)
(* reading the local file; the mv throws a RESTAPIError.                   *)
(* The result: the error raised ("None": returned), the error underneath,  *)
(* the failing step, the requests issued and the device's files afterwards.*)
(***************************************************************************)
UploadErr(cause) ==
    IF cause = "RESTAPIError" THEN "ConnectionError" ELSE cause

MvSource(fp) == InDownloads(fp)

UploadScf(dev, fs, fp, f) ==
    IF dev = "None"
    THEN [err |-> "AttributeError", cause |-> "AttributeError",
          fault |-> "upload", calls |-> <<>>, remote |-> fs]
    ELSE IF f.step = "upload"
    THEN [err |-> UploadErr(f.err), cause |-> f.err, fault |-> "upload",
          calls |-> IF f.err = "EnvironmentError" THEN <<>> ELSE <<UploadReq(fp)>>,
          remote |-> fs]
    ELSE IF f.step = "mv"
    THEN [err |-> UploadErr(f.err), cause |-> f.err, fault |-> "mv",
          calls |-> <<UploadReq(fp), BashReq("mv", MvSource(fp), TmpDir)>>,
          remote |-> DevUpload(fs, fp)]
    ELSE [err |-> "None", cause |-> "None", fault |-> "none",
          calls |-> <<UploadReq(fp), BashReq("mv", MvSource(fp), TmpDir)>>,
          remote |-> DevMv(DevUpload(fs, fp), MvSource(fp), TmpDir)]

(***************************************************************************)
(* load_replace_candidate / load_merge_candidate.                          *)
(***************************************************************************)
ReplaceRaised(err) == IF err = "None" THEN "None" ELSE "ReplaceConfigException"

\* load_merge_candidate raising load_replace_candidate's exception
MergeRaisedAsReplace(err) == ReplaceRaised(err)

MergeRaised(err) == IF err = "None" THEN "None" ELSE "MergeConfigException"

StageRaised(op, err) ==
    IF op = "load_replace_candidate" THEN ReplaceRaised(err) ELSE MergeRaised(err)

StageFilename(fp) == Basename(fp)

\* the file the stage call tells the device to load: f"/tmp/{self.filename}"
StageLoadFile(name) == InTmp(name)

\* the device rejects a load of a file it does not hold
LoadOutcome(fs, file, f) ==
    IF f.step # "load" /\ file \in fs THEN "None" ELSE "RESTAPIError"

\* config given
StageConfig(op, merge) ==
    \E fp \in LocalPaths \cup {<<>>} :
        /\ config_replace' = ~merge
        /\ last' = Call(op, [NoArgs EXCEPT !.path = fp, !.config = TRUE],
                        "NotImplementedError", "None", "NotImplementedError",
                        "config", <<>>, "None")
        /\ cycle' = "Failed"
        /\ UNCHANGED <<device, filename, remote, running, saved>>

\* neither config nor filename given
StageNothing(op, merge) ==
    /\ config_replace' = ~merge
    /\ last' = Returned(op, NoArgs, <<>>, "None")
    /\ cycle' = "ModeOnly"
    /\ UNCHANGED <<device, filename, remote, running, saved>>

\* filename given
StageFile(op, merge) ==
    \E fp \in LocalPaths, f \in StageFaults :
        LET args == [NoArgs EXCEPT !.path = fp]
            name == StageFilename(fp)
            u    == UploadScf(device, remote, fp, f)
            file == StageLoadFile(name)
            lerr == LoadOutcome(u.remote, file, f)
            reqs == Append(u.calls, LoadFileReq(file, merge))
        IN  /\ config_replace' = ~merge
            /\ cycle' = IF u.err = "None" /\ lerr = "None" THEN "Staged"
                                                           ELSE "Failed"
            /\ filename' = name
            /\ remote' = u.remote
            /\ UNCHANGED <<device, saved>>
            /\ IF u.err # "None"
               THEN /\ last' = Call(op, args, StageRaised(op, u.err), u.err,
                                    u.cause, u.fault, u.calls, "None")
                    /\ UNCHANGED running
               ELSE IF lerr # "None"
               THEN /\ last' = Call(op, args, StageRaised(op, lerr), lerr,
                                    lerr, "load", reqs, "None")
                    /\ UNCHANGED running
               ELSE /\ last' = Returned(op, args, reqs, "None")
                    /\ running' = DevLoad(running, file, merge)

Stage(op, merge) ==
    \/ StageConfig(op, merge)
    \/ StageNothing(op, merge)
    \/ StageFile(op, merge)

LoadReplaceCandidate == Stage("load_replace_candidate", FALSE)

LoadMergeCandidate == Stage("load_merge_candidate", TRUE)

(***************************************************************************)
(* commit_config: GET /mgmt/tm/sys/config, then PUT the object back.       *)
(***************************************************************************)
\* commit_config without its except clause
CommitRaisedUnwrapped(err) == err

CommitRaised(err) ==
    IF err = "RESTAPIError" THEN "CommitConfigException" ELSE err

CommitWraps(err) == IF err = "RESTAPIError" THEN err ELSE "None"

CommitCalls(f) ==
    IF f.step = "load" THEN <<GetReq("/mgmt/tm/sys/config")>>
    ELSE <<GetReq("/mgmt/tm/sys/config"), PutReq("/mgmt/tm/sys/config")>>

CommitFilename(name) == name

CommitFaults ==
    {Ok, Fails("load", "RESTAPIError"), Fails("save", "RESTAPIError")}

CommitConfig ==
    \E f \in CommitFaults :
        LET err == IF device = "None" THEN "AttributeError" ELSE f.err
            fault == IF device = "None" THEN "load" ELSE f.step
            calls == IF device = "None" THEN <<>> ELSE CommitCalls(f)
        IN  /\ last' = Call("commit_config", NoArgs, CommitRaised(err),
                            CommitWraps(err), err, fault, calls, "None")
            /\ cycle' = IF err = "None" /\ cycle = "Staged" THEN "Committed"
                                                           ELSE cycle
            /\ saved' = IF err = "None" THEN running ELSE saved
            /\ filename' = CommitFilename(filename)
            /\ UNCHANGED <<device, config_replace, remote, running>>

(***************************************************************************)
(* discard_config: bash rm of the downloads directory's {self.filename}.   *)
(***************************************************************************)
DiscardRaised(err) ==
    IF err = "RESTAPIError" THEN "DiscardConfigException" ELSE err

\* str(self.filename) inside the f-string
Formatted(name) == IF name = <<>> THEN <<"None">> ELSE name

DiscardTarget(name) == InDownloads(Formatted(name))

DiscardFilename(name) == name

DiscardConfig ==
    \E f \in {Ok, Fails("rm", "RESTAPIError")} :
        LET err == IF device = "None" THEN "AttributeError" ELSE f.err
            target == DiscardTarget(filename)
            calls == IF device = "None" THEN <<>>
                     ELSE <<BashReq("rm", target, <<>>)>>
        IN  /\ last' = Call("discard_config", NoArgs, DiscardRaised(err),
                            IF err = "RESTAPIError" THEN err ELSE "None",
                            err, IF err = "None" THEN "none" ELSE "rm",
                            calls, "None")
            /\ cycle' = IF err = "None" /\ cycle = "Staged" THEN "Discarded"
                                                           ELSE cycle
            /\ remote' = IF err = "None" THEN DevRm(remote, target) ELSE remote
            /\ filename' = DiscardFilename(filename)
            /\ UNCHANGED <<device, config_replace, running, saved>>

(***************************************************************************)
(* get_config(retrieve, full, sanitized, format).  A message is the        *)
(* sequence of its words.                                                  *)
(***************************************************************************)
RetrieveValues == {"all", "recursive", "running", "unknown"}

FormatValues == {"text", "xml"}

FeatureMsg ==
    <<"Specified", "feature", "for", "get_config()", "is", "not", "implemented.">>

RetrieveMsg(retrieve) ==
    <<"Retrieve", "type", "of", retrieve, "is", "not", "valid.", "Only",
      "running-config", "can", "be", "provided.">>

FormatMsg(format) == <<"Format", "of", "type", format, "is", "not", "valid.">>

\* get_config that also lets retrieve="running" through
RetrieveSupportedWithRunning(retrieve) ==
    retrieve \in {"all", "recursive", "running"}

RetrieveSupported(retrieve) == retrieve \in {"all", "recursive"}

ShowRunningConfig(retrieve) ==
    IF retrieve = "recursive"
    THEN BashReq("tmsh show running-config recursive", <<>>, <<>>)
    ELSE BashReq("tmsh show running-config", <<>>, <<>>)

\* the message of the NotImplementedError get_config raises, <<>> when the
\* parameters pass its checks
GetConfigRefusal(retrieve, full, sanitized, format) ==
    IF sanitized \/ full THEN FeatureMsg
    ELSE IF ~RetrieveSupported(retrieve) THEN RetrieveMsg(retrieve)
    ELSE IF format # "text" THEN FormatMsg(format)
    ELSE <<>>

GetConfig ==
    \E retrieve \in RetrieveValues, full \in BOOLEAN, sanitized \in BOOLEAN,
       format \in FormatValues, f \in {Ok, Fails("command", "RESTAPIError")} :
        LET args == [NoArgs EXCEPT !.retrieve = retrieve, !.full = full,
                                   !.sanitized = sanitized, !.format = format]
            refusal == GetConfigRefusal(retrieve, full, sanitized, format)
        IN  /\ \/ refusal = <<>>
               \/ f = Ok
            /\ last' =
                 IF refusal # <<>>
                 THEN WithMsg(Call("get_config", args, "NotImplementedError",
                                   "None", "NotImplementedError", "parameters",
                                   <<>>, "None"), refusal)
                 ELSE IF device = "None"
                 THEN Call("get_config", args, "AttributeError", "None",
                           "AttributeError", "command", <<>>, "None")
                 ELSE IF f # Ok
                 THEN Call("get_config", args, f.err, "None", f.err, f.step,
                           <<ShowRunningConfig(retrieve)>>, "None")
                 ELSE Returned("get_config", args, <<ShowRunningConfig(retrieve)>>,
                               [running |-> running, candidate |-> "",
                                startup |-> ""])
            /\ UNCHANGED <<device, filename, config_replace, remote, running,
                           saved, cycle>>

(***************************************************************************)
(* The read-and-reshape getters.  Each issues its queries in order; the    *)
(* k-th may throw a RESTAPIError.  Only get_interfaces has an except       *)
(* clause.  The records they build from the responses need no further      *)
(* remote call and change no field of the driver.                          *)
(***************************************************************************)
FactsQueries ==
    <<GetReq("/mgmt/tm/cm/device/"), BashReq("uptime", <<>>, <<>>),
      GetReq("/mgmt/tm/net/interface/")>>

SnmpQueries ==
    <<GetReq("/mgmt/tm/sys/snmp/"), GetReq("/mgmt/tm/cm/device/"),
      GetReq("/mgmt/tm/sys/snmp/communities/")>>

Queries(op) ==
    CASE op = "get_facts" -> FactsQueries
      [] op = "get_snmp_information" -> SnmpQueries
      [] op = "get_interfaces" -> <<GetReq("/mgmt/tm/net/interface/")>>
      [] op = "get_interfaces_ip" -> <<GetReq("/mgmt/tm/net/self/")>>
      [] op = "get_users" -> <<GetReq("/mgmt/tm/auth/user/")>>
      [] op = "get_ntp_servers" -> <<GetReq("/mgmt/tm/sys/ntp/")>>

\* what a RESTAPIError of a query leaves the getter as
FactsRaised(err) == err

InterfacesRaised(err) ==
    IF err = "RESTAPIError" THEN "ConnectionError" ELSE err

InterfacesIpRaised(err) == err

SnmpRaised(err) == err

UsersRaised(err) == err

NtpRaised(err) == err

GetterRaised(op, err) ==
    CASE op = "get_facts" -> FactsRaised(err)
      [] op = "get_snmp_information" -> SnmpRaised(err)
      [] op = "get_interfaces" -> InterfacesRaised(err)
      [] op = "get_interfaces_ip" -> InterfacesIpRaised(err)
      [] op = "get_users" -> UsersRaised(err)
      [] op = "get_ntp_servers" -> NtpRaised(err)

SubSeqTo(q, k) == [i \in 1..k |-> q[i]]

\* failAt = 0: every query answers; failAt = k: the k-th throws
Getter(op) ==
    \E failAt \in 0..Len(Queries(op)) :
        LET q == Queries(op)
            err == IF device = "None" THEN "AttributeError"
                   ELSE IF failAt > 0 THEN "RESTAPIError" ELSE "None"
            raised == GetterRaised(op, err)
        IN  /\ last' =
                 IF device = "None"
                 THEN Call(op, NoArgs, raised, "None", err, "query", <<>>, "None")
                 ELSE IF failAt > 0
                 THEN Call(op, NoArgs, raised,
                           IF raised = err THEN "None" ELSE err, err, "query",
                           SubSeqTo(q, failAt), "None")
                 ELSE Returned(op, NoArgs, q, "record")
            /\ UNCHANGED <<device, filename, config_replace, remote, running,
                           saved, cycle>>

GetFacts == Getter("get_facts")

(***************************************************************************)
(* get_interfaces.  A string is the sequence of its characters.            *)
(***************************************************************************)
\* Python's `t in s` for strings
Contains(s, t) ==
    \E i \in 0..(Len(s) - Len(t)) : \A j \in 1..Len(t) : s[i + j] = t[j]

\* if_speed with the tests for "1000" and "10000" in the other order
IfSpeedThousandFirst(active_media) ==
    IF Contains(active_media, <<"1", "0", "0", "0", "0", "0">>) THEN 100000
    ELSE IF Contains(active_media, <<"4", "0", "0", "0", "0">>) THEN 40000
    ELSE IF Contains(active_media, <<"1", "0", "0", "0">>) THEN 1000
    ELSE IF Contains(active_media, <<"1", "0", "0", "0", "0">>) THEN 10000
    ELSE IF Contains(active_media, <<"1", "0", "0">>) THEN 100
    ELSE -1

IfSpeed(active_media) ==
    IF Contains(active_media, <<"1", "0", "0", "0", "0", "0">>) THEN 100000
    ELSE IF Contains(active_media, <<"4", "0", "0", "0", "0">>) THEN 40000
    ELSE IF Contains(active_media, <<"1", "0", "0", "0", "0">>) THEN 10000
    ELSE IF Contains(active_media, <<"1", "0", "0", "0">>) THEN 1000
    ELSE IF Contains(active_media, <<"1", "0", "0">>) THEN 100
    ELSE -1

MediaNone == <<"n", "o", "n", "e">>

\* not (mediaActive == "none")
MediaStatus(active_media) == ~(active_media = MediaNone)

\* properties["description"] if properties.get("description") else "";
\* the property is <<>> when the object has none
Description(d) == IF d = <<>> \/ d = <<"">> THEN "" ELSE d[1]

\* one entry of the result, from the properties of one interface object
InterfaceEntry(p) ==
    [is_up |-> MediaStatus(p.mediaActive),
     is_enabled |-> p.enabled,
     description |-> Description(p.description),
     last_flapped |-> "-1.0",
     speed |-> IfSpeed(p.mediaActive),
     mac_address |-> p.macAddress]

\* the dict comprehension over the zipped lists: a later object of the same
\* name replaces an earlier one
InterfacesDict(q) ==
    [n \in {q[i].name : i \in DOMAIN q} |->
        LET k == CHOOSE i \in DOMAIN q :
                     /\ q[i].name = n
                     /\ \A j \in DOMAIN q : q[j].name = n => j <= i
        IN  InterfaceEntry(q[k])]

Interface(name, media, enabled, mac, description) ==
    [name |-> name, mediaActive |-> media, enabled |-> enabled,
     macAddress |-> mac, description |-> description]

\* the pieces active-media strings are put together from
MediaPieces ==
    {<<"4", "0", "0", "0", "0">>, <<"1", "0", "0", "0">>, <<"1", "0", "0">>,
     <<"1">>, <<"0">>, <<"T">>}

\* how many pieces a string is put together from, at most
MaxPieces == 3

RECURSIVE Pieced(_)
Pieced(n) ==
    IF n = 0 THEN {<<>>}
    ELSE Pieced(n - 1) \cup {s \o p : s \in Pieced(n - 1), p \in MediaPieces}

\* "10000SR-FD" and "100TX-FD", as the device writes them
MediaSamples ==
    {MediaNone,
     <<"1", "0", "0", "0", "0", "S", "R", "-", "F", "D">>,
     <<"1", "0", "0", "T", "X", "-", "F", "D">>}

MediaStrings == Pieced(MaxPieces) \cup MediaSamples

\* answers of /mgmt/tm/net/interface/ with one interface, of any media
AnyMediaAnswers ==
    {<<Interface("1.1", m, TRUE, "00:01:d7:aa:bb:01", <<>>)>> : m \in MediaStrings}

\* a few answers: no interface, two interfaces, the same name twice
SampleAnswers ==
    {<<>>,
     <<Interface("1.1", <<"1", "0", "0", "0", "0", "S", "R", "-", "F", "D">>,
                 TRUE, "00:01:d7:aa:bb:01", <<"uplink">>),
       Interface("mgmt", MediaNone, FALSE, "00:01:d7:aa:bb:02", <<>>)>>,
     <<Interface("1.1", <<"1", "0", "0", "0", "T">>, TRUE,
                 "00:01:d7:aa:bb:01", <<"">>),
       Interface("1.1", MediaNone, TRUE, "00:01:d7:aa:bb:01", <<>>)>>}

\* the query throws, or there is no session to send it on
GetInterfacesFails ==
    \E f \in {Fails("query", "RESTAPIError")} :
        LET q == Queries("get_interfaces")
            err == IF device = "None" THEN "AttributeError" ELSE f.err
            raised == InterfacesRaised(err)
        IN  /\ last' = Call("get_interfaces", NoArgs, raised,
                            IF raised = err THEN "None" ELSE err, err, f.step,
                            IF device = "None" THEN <<>> ELSE q, "None")
            /\ UNCHANGED <<device, filename, config_replace, remote, running,
                           saved, cycle>>

\* the query answers
GetInterfacesAnswered(answers) ==
    \E objects \in answers :
        /\ device # "None"
        /\ last' = WithAnswer(Returned("get_interfaces", NoArgs,
                                       Queries("get_interfaces"),
                                       InterfacesDict(objects)), objects)
        /\ UNCHANGED <<device, filename, config_replace, remote, running,
                       saved, cycle>>

GetInterfaces ==
    \/ GetInterfacesFails
    \/ GetInterfacesAnswered(SampleAnswers)

GetInterfacesAnyMedia ==
    \/ GetInterfacesFails
    \/ GetInterfacesAnswered(AnyMediaAnswers)

GetInterfacesIp == Getter("get_interfaces_ip")

GetSnmpInformation == Getter("get_snmp_information")

(***************************************************************************)
(* get_users.  A user object has a name, the roles of its partitionAccess  *)
(* entries in order, and an encryptedPassword.                             *)
(***************************************************************************)
User(name, roles, hash) ==
    [name |-> name, partitionAccess |-> roles, encryptedPassword |-> hash]

UserPool ==
    {User("admin", <<"admin">>, "$6$aa"),
     User("guest", <<"guest", "admin">>, "$6$bb"),
     User("nobody", <<>>, "$6$cc")}

\* how many users the device reports, at most
MaxUsers == 2

RECURSIVE UserLists(_)
UserLists(n) ==
    IF n = 0 THEN {<<>>}
    ELSE UserLists(n - 1)
         \cup {Append(q, u) : q \in UserLists(n - 1), u \in UserPool}

\* 15 if partitionAccess[0]["role"] == "admin" else 0
UserLevel(user) == IF user.partitionAccess[1] = "admin" THEN 15 ELSE 0

\* the dict the loop body assigns to users_dict
UserDict(user) ==
    [n \in {user.name} |->
        [level |-> UserLevel(user), password |-> user.encryptedPassword,
         sshkeys |-> <<>>]]

RECURSIVE UsersLoop(_, _, _)
\* the for loop from its i-th round on: the dict it ends with, or the
\* IndexError of a user without partitionAccess entries
UsersLoop(users_dict, api_users, i) ==
    IF i > Len(api_users) THEN [err |-> "None", dict |-> users_dict]
    ELSE IF api_users[i].partitionAccess = <<>>
    THEN [err |-> "IndexError", dict |-> users_dict]
    ELSE UsersLoop(UserDict(api_users[i]), api_users, i + 1)

\* the query throws, or there is no session to send it on
GetUsersFails ==
    \E f \in {Fails("query", "RESTAPIError")} :
        LET err == IF device = "None" THEN "AttributeError" ELSE f.err
        IN  /\ last' = Call("get_users", NoArgs, UsersRaised(err), "None", err,
                            f.step,
                            IF device = "None" THEN <<>> ELSE Queries("get_users"),
                            "None")
            /\ UNCHANGED <<device, filename, config_replace, remote, running,
                           saved, cycle>>

\* the query answers
GetUsersAnswered ==
    \E api_users \in UserLists(MaxUsers) :
        LET out == UsersLoop(<<>>, api_users, 1)
        IN  /\ device # "None"
            /\ last' = WithAnswer(
                         IF out.err = "None"
                         THEN Returned("get_users", NoArgs, Queries("get_users"),
                                       out.dict)
                         ELSE Call("get_users", NoArgs, out.err, "None", out.err,
                                   "partitionAccess", Queries("get_users"),
                                   "None"),
                         api_users)
            /\ UNCHANGED <<device, filename, config_replace, remote, running,
                           saved, cycle>>

GetUsers ==
    \/ GetUsersFails
    \/ GetUsersAnswered

GetNtpServers == Getter("get_ntp_servers")

(***************************************************************************)
(* Python integers.  They have no width, so a value is kept in two's       *)
(* complement: NumLimbs limbs of 16 bits, least significant first, and     *)
(* neg: whether the sign extends above them.  Its value is                 *)
(*   limbs[1] + limbs[2]*2^16 + ... - (IF neg THEN 2^(16*NumLimbs) ELSE 0).*)
(***************************************************************************)
LimbBase == 2^16

\* limbs kept: 96 bits, above the 64 the result needs
NumLimbs == 6

Limbs == 1..NumLimbs

SignLimb(neg) == IF neg THEN LimbBase - 1 ELSE 0

\* a value of the signed 32-bit range
PyInt(x) ==
    [neg |-> x < 0,
     limbs |-> [i \in Limbs |->
                  IF i = 1 THEN x % LimbBase
                  ELSE IF i = 2 THEN (x \div LimbBase) % LimbBase
                  ELSE SignLimb(x < 0)]]

\* 1 << 32
OneShl32 == [neg |-> FALSE, limbs |-> [i \in Limbs |-> IF i = 3 THEN 1 ELSE 0]]

RECURSIVE CarryInto(_, _, _)
\* the carry into limb i of a + b
CarryInto(a, b, i) ==
    IF i = 1 THEN 0
    ELSE (a.limbs[i - 1] + b.limbs[i - 1] + CarryInto(a, b, i - 1)) \div LimbBase

\* a + b
PyAdd(a, b) ==
    LET top == (SignLimb(a.neg) + SignLimb(b.neg) + CarryInto(a, b, Cardinality(Limbs) + 1)) % LimbBase
    IN  [neg |-> top = LimbBase - 1,
         limbs |-> [i \in Limbs |->
                      (a.limbs[i] + b.limbs[i] + CarryInto(a, b, i)) % LimbBase]]

\* a << 32
PyShl32(a) ==
    [neg |-> a.neg,
     limbs |-> [i \in Limbs |-> IF i <= 2 THEN 0 ELSE a.limbs[i - 2]]]

RECURSIVE BitOr(_, _, _)
\* x | y over the low n bits
BitOr(x, y, n) ==
    IF n = 0 THEN 0
    ELSE (IF x % 2 = 1 \/ y % 2 = 1 THEN 1 ELSE 0)
         + 2 * BitOr(x \div 2, y \div 2, n - 1)

\* a | b
PyOr(a, b) ==
    [neg |-> a.neg \/ b.neg,
     limbs |-> [i \in Limbs |-> BitOr(a.limbs[i], b.limbs[i], 16)]]

\* a < 0
PyNegative(a) == a.neg

(***************************************************************************)
(* convert_to_64_bit(value).                                               *)
(***************************************************************************)
MinInt32 == -2147483647 - 1

Int32Samples ==
    {MinInt32, MinInt32 + 1, -65537, -65536, -2, -1, 0, 1, 65535, 65536,
     2147483647}

\* if high < 0: high = high + (1 << 32)
HighUnsigned(high) == IF PyNegative(high) THEN PyAdd(high, OneShl32) ELSE high

\* convert_to_64_bit without the correction of a negative low half
LowUnsignedUncorrected(low) == low

\* if low < 0: low = low + (1 << 32)
LowUnsigned(low) == IF PyNegative(low) THEN PyAdd(low, OneShl32) ELSE low

\* int((high << 32) | low)
Combine(high, low) == PyOr(PyShl32(high), low)

ConvertTo64BitValue(high, low) ==
    Combine(HighUnsigned(PyInt(high)), LowUnsigned(PyInt(low)))

ConvertTo64Bit ==
    \E high \in Int32Samples, low \in Int32Samples :
        LET args == [NoArgs EXCEPT !.high = high, !.low = low]
            value == ConvertTo64BitValue(high, low)
        IN  /\ last' = IF PyNegative(value)
                       THEN Call("convert_to_64_bit", args, "AssertionError",
                                 "None", "AssertionError", "assert", <<>>, value)
                       ELSE Returned("convert_to_64_bit", args, <<>>, value)
            /\ UNCHANGED <<device, filename, config_replace, remote, running,
                           saved, cycle>>

(***************************************************************************)
(* Specifications.  get_config, the getters and convert_to_64_bit assign   *)
(* no field of the driver and change nothing on the device, so running them*)
(* between the calls of Next adds no state of the driver or the device:    *)
(* they are explored in specifications of their own.                       *)
(***************************************************************************)
\* the session and the stage / commit / discard calls
Next ==
    \/ Open
    \/ Close
    \/ IsAlive
    \/ LoadReplaceCandidate
    \/ LoadMergeCandidate
    \/ CommitConfig
    \/ DiscardConfig

Spec == Init /\ [][Next]_vars

\* get_config and the getters, on a driver that is opened, closed and staged
NextReading ==
    \/ Open
    \/ Close
    \/ LoadReplaceCandidate
    \/ LoadMergeCandidate
    \/ GetConfig
    \/ GetFacts
    \/ GetInterfaces
    \/ GetInterfacesIp
    \/ GetSnmpInformation
    \/ GetUsers
    \/ GetNtpServers

SpecReading == Init /\ [][NextReading]_vars

\* get_interfaces on every active-media string
NextInterfaces ==
    \/ Open
    \/ Close
    \/ GetInterfacesAnyMedia

SpecInterfaces == Init /\ [][NextInterfaces]_vars

\* the static helper, which reads and writes no field
NextCounters == ConvertTo64Bit

SpecCounters == Init /\ [][NextCounters]_vars

(***************************************************************************)
(* The claims.                                                             *)
(***************************************************************************)
Range(q) == {q[i] : i \in DOMAIN q}

Getters ==
    {"get_facts", "get_interfaces", "get_interfaces_ip",
     "get_snmp_information", "get_users", "get_ntp_servers"}

\* C1: a stage call that was given a file and returned has only uploaded
\* and relocated the file: it has sent the device no load command, and the
\* running configuration is the one from before the call.
C1_StagingDoesNotActivate ==
    (last.op \in StageOps /\ last.args.path # <<>> /\ last.raised = "None")
        => /\ \A r \in Range(last.calls) : r.command # "load"
           /\ running = last.pre.running

\* C2: a commit_config that returns in the Staged state has told the
\* device to load the file named by the recorded filename, with the
\* recorded mode (merge exactly when config_replace is false), and has
\* saved after that.
C2_CommitLoadsStagedArtifact ==
    (last.op = "commit_config" /\ last.raised = "None"
     /\ last.pre.cycle = "Staged")
        => \E i, j \in DOMAIN last.calls :
               /\ i < j
               /\ last.calls[i] = LoadFileReq(StageLoadFile(filename),
                                              ~config_replace)
               /\ last.calls[j].api = "save"

\* C3: once a staged replace candidate is discarded and until the next
\* stage call, the driver remembers no artifact, and a commit_config sends
\* the device nothing and leaves its running and saved configuration alone.
C3_DiscardEndsCycle ==
    (cycle = "Discarded" /\ config_replace)
        => /\ filename = <<>>
           /\ last.op = "commit_config"
                => /\ last.calls = <<>>
                   /\ running = last.pre.running
                   /\ saved = last.pre.saved

\* C4: after a stage call that returned and a discard_config that returned,
\* the file is no longer at the place the stage call left it (the path the
\* stage call loaded it from), and the discard did not apply it.
C4_DiscardRemovesStagedFile ==
    (last.op = "discard_config" /\ last.raised = "None"
     /\ last.pre.cycle = "Staged")
        => /\ StageLoadFile(filename) \notin remote
           /\ running = last.pre.running

\* C5: a commit_config that meets an error of the device raises
\* CommitConfigException wrapping that error and leaves the recorded
\* filename, the recorded mode and the place in the cycle as they were.
C5_CommitFailureKeepsStaged ==
    (last.op = "commit_config" /\ last.cause = "RESTAPIError")
        => /\ last.raised = "CommitConfigException"
           /\ last.wraps = "RESTAPIError"
           /\ filename = last.pre.filename
           /\ config_replace = last.pre.config_replace
           /\ cycle = last.pre.cycle

C5_Witness ==
    /\ last.op = "commit_config"
    /\ last.cause = "RESTAPIError"
    /\ cycle = "Staged"
    /\ filename = <<"a.scf">>

\* C6: a stage call whose upload (the transfer or the relocation) fails
\* raises ReplaceConfigException from load_replace_candidate and
\* MergeConfigException from load_merge_candidate, wrapping the error; the
\* recorded filename is then the basename of the path given and the
\* recorded mode that of the failed call.
C6_UploadFailureKind ==
    (last.op \in StageOps /\ last.fault \in {"upload", "mv"})
        => /\ last.raised = IF last.op = "load_replace_candidate"
                            THEN "ReplaceConfigException"
                            ELSE "MergeConfigException"
           /\ last.wraps \in {"ConnectionError", "EnvironmentError",
                              "AttributeError"}
           /\ Len(filename) = 1
           /\ filename[1] = last.args.path[Len(last.args.path)]
           /\ config_replace = (last.op = "load_replace_candidate")

C6_Witness ==
    /\ last.op = "load_merge_candidate"
    /\ last.fault = "upload"
    /\ last.cause = "RESTAPIError"
    /\ last.args.path = <<"cfg", "b.scf">>
    /\ last.pre.filename = <<"a.scf">>
    /\ last.pre.config_replace

\* C7: close() always returns and leaves the handle absent, also when the
\* handle was already absent; is_alive() returns is_alive = true exactly
\* when the handle is present, and issues no remote request.
C7_SessionLifecycle ==
    /\ last.op = "close" => (last.raised = "None" /\ device = "None")
    /\ last.op = "is_alive"
         => /\ last.raised = "None"
            /\ last.ret.is_alive = (device # "None")
            /\ last.calls = <<>>

C7_Witness ==
    /\ last.op = "close"
    /\ last.pre.device = "None"
    /\ last.raised = "None"

\* the parameters of a get_config call that have an unsupported value
Unsupported(args) ==
    {p \in {"retrieve", "full", "sanitized", "format"} :
        \/ p = "retrieve" /\ args.retrieve \notin {"all", "recursive"}
        \/ p = "full" /\ args.full
        \/ p = "sanitized" /\ args.sanitized
        \/ p = "format" /\ args.format # "text"}

\* the message has the parameter's name among its words
NamesParameter(msg, p) ==
    \/ p = "retrieve" /\ Range(msg) \cap {"retrieve", "Retrieve"} # {}
    \/ p = "full" /\ Range(msg) \cap {"full", "Full"} # {}
    \/ p = "sanitized" /\ Range(msg) \cap {"sanitized", "Sanitized"} # {}
    \/ p = "format" /\ Range(msg) \cap {"format", "Format"} # {}

IsShowRunningConfig(r) ==
    /\ r.api = "command"
    /\ r.path = "/mgmt/tm/util/bash"
    /\ r.prog \in {"tmsh show running-config",
                   "tmsh show running-config recursive"}

C9_GettersWrapTransportFailure ==
    last.op \in Getters
        => /\ last.cause = "RESTAPIError"
                => /\ last.raised = "ConnectionError"
                   /\ last.wraps = "RESTAPIError"
           /\ device = last.pre.device
           /\ filename = last.pre.filename
           /\ config_replace = last.pre.config_replace

\* ((high mod 2^32) * 2^32) + (low mod 2^32), limb by limb
Unsigned64(high, low) ==
    [neg |-> FALSE,
     limbs |-> [i \in Limbs |->
                  CASE i = 1 -> low % LimbBase
                    [] i = 2 -> (low \div LimbBase) % LimbBase
                    [] i = 3 -> high % LimbBase
                    [] i = 4 -> (high \div LimbBase) % LimbBase
                    [] OTHER -> 0]]

\* 2^64 - 1
MaxUnsigned64 ==
    [neg |-> FALSE,
     limbs |-> [i \in Limbs |-> IF i <= 4 THEN LimbBase - 1 ELSE 0]]

\* C10: for signed 32-bit high and low, convert_to_64_bit returns
\* ((high mod 2^32) * 2^32) + (low mod 2^32); the assertion never fails
\* (the value is not negative); 0, 0 gives 0 and -1, -1 gives 2^64 - 1.
C10_ConvertTo64Bit ==
    last.op = "convert_to_64_bit" =>
        /\ last.raised = "None"
        /\ ~last.ret.neg
        /\ last.ret = Unsigned64(last.args.high, last.args.low)
        /\ (last.args.high = 0 /\ last.args.low = 0)
             => \A i \in Limbs : last.ret.limbs[i] = 0
        /\ (last.args.high = -1 /\ last.args.low = -1)
             => last.ret = MaxUnsigned64

C10_Witness ==
    /\ last.op = "convert_to_64_bit"
    /\ last.args.high = -1
    /\ last.args.low = -1
    /\ last.ret = MaxUnsigned64
\* the decimal digits of a positive number
RECURSIVE Decimal(_)
Decimal(n) ==
    LET d == <<"0", "1", "2", "3", "4", "5", "6", "7", "8", "9">>[(n % 10) + 1]
    IN  IF n < 10 THEN <<d>> ELSE Append(Decimal(n \div 10), d)

SpeedTokens == <<100000, 40000, 10000, 1000, 100>>

\* the first token of the list that occurs in the string, -1 if none does
FirstToken(m) ==
    LET hits == {i \in DOMAIN SpeedTokens : Contains(m, Decimal(SpeedTokens[i]))}
    IN  IF hits = {} THEN -1
        ELSE SpeedTokens[CHOOSE i \in hits : \A j \in hits : i <= j]

\* the speed get_interfaces returned for the one interface it was answered
SpeedReturned == last.ret[last.answer[1].name].speed

AnsweredOne ==
    /\ last.op = "get_interfaces"
    /\ last.raised = "None"
    /\ Len(last.answer) = 1

\* C11 as stated: the speed is the first token of 100000, 40000, 10000,
\* 1000, 100 occurring in the active-media string, -1 if none occurs, and
\* every string containing both "10000" and "1000" gives 10000.
C11_SpeedAsStated ==
    AnsweredOne =>
        LET m == last.answer[1].mediaActive
        IN  /\ SpeedReturned = FirstToken(m)
            /\ (Contains(m, Decimal(10000)) /\ Contains(m, Decimal(1000)))
                 => SpeedReturned = 10000

\* C11 as amended: the speed is the first token of 100000, 40000, 10000,
\* 1000, 100 occurring in the active-media string, -1 if none occurs; a
\* string containing both "10000" and "1000" never gives 1000, and gives
\* 10000 when it contains neither "100000" nor "40000".
C11_SpeedFirstToken ==
    AnsweredOne =>
        LET m == last.answer[1].mediaActive
        IN  /\ SpeedReturned = FirstToken(m)
            /\ (Contains(m, Decimal(10000)) /\ Contains(m, Decimal(1000)))
                 => /\ SpeedReturned # 1000
                    /\ (~Contains(m, Decimal(100000))
                        /\ ~Contains(m, Decimal(40000)))
                         => SpeedReturned = 10000

C11_Witness ==
    /\ AnsweredOne
    /\ last.answer[1].mediaActive =
         <<"1", "0", "0", "0", "0", "S", "R", "-", "F", "D">>
    /\ SpeedReturned = 10000

\* C12: the mapping get_users returns has exactly the reported usernames
\* as its keys, and each entry holds that user's privilege level, its
\* encrypted password hash and an empty key list.
C12_UsersOnePerName ==
    (last.op = "get_users" /\ last.raised = "None")
        => /\ DOMAIN last.ret = {last.answer[i].name : i \in DOMAIN last.answer}
           /\ \A i \in DOMAIN last.answer :
                (\A j \in DOMAIN last.answer :
                    last.answer[j].name = last.answer[i].name => j = i)
                  => /\ last.answer[i].name \in DOMAIN last.ret
                     /\ last.ret[last.answer[i].name] =
                          [level |-> IF last.answer[i].partitionAccess[1] = "admin"
                                     THEN 15 ELSE 0,
                           password |-> last.answer[i].encryptedPassword,
                           sshkeys |-> <<>>]

\* C13: when a stage call given a local path has issued its relocation and
\* its load, and discard_config follows it and issues its removal, the three
\* requests name one file: the relocation takes the uploaded file (stored
\* under the basename of the path) into the staging directory, the load
\* reads the relocated file, and the removal deletes the relocated file.
C13_OneArtifactPerCycle ==
    [][(/\ last.op \in StageOps
        /\ last.args.path # <<>>
        /\ \E r \in Range(last.calls) : r.prog = "mv"
        /\ \E r \in Range(last.calls) : r.command = "load"
        /\ last'.op = "discard_config"
        /\ last'.calls # <<>>)
          => LET name == Basename(last.args.path)
                 staged == InTmp(name)
             IN  /\ \A r \in Range(last.calls) :
                       r.prog = "mv"
                         => /\ r.src = InDownloads(name)
                            /\ r.dst \o <<r.src[Len(r.src)]>> = staged
                 /\ \A r \in Range(last.calls) :
                       r.command = "load" => r.src = staged
                 /\ \A r \in Range(last'.calls) :
                       r.prog = "rm" => r.src = staged]_vars
====
